---- MODULE Spec2Model ----
\* Railway ticket booking backend (charmheroku/railway-station): the order core.
\*
\* State: the committed rows of the Order and Ticket tables, the Order primary
\* key sequence, the requests in flight (one per client connection) with the
\* rows their open transaction has written, and the answer (if any) that the
\* step just taken gave to its caller; for the trip scheduler, the rows of the
\* Trip table (schedule) and the trip writes in flight (tripReq). The booking
\* specifications work on a fixed catalog of trips and leave the schedule alone.
\*
\* Storage semantics are those of the production database (PostgreSQL, READ
\* COMMITTED): a query sees committed rows and the rows of its own transaction;
\* an INSERT whose unique key is held by an uncommitted row of another
\* transaction waits for that transaction to end; a cycle of such waits is a
\* deadlock, which the database breaks by aborting one transaction of the cycle.
\*
\* The source names a wagon's class both Wagon.type (station/models.py) and
\* wagon.wagon_type (booking/models.py, station/views.py); the model reads both
\* as the one foreign key from Wagon to WagonType.
EXTENDS Integers, Sequences, FiniteSets, TLC

VARIABLES orders, tickets, nextId, req, answer, schedule, tripReq

vars == <<orders, tickets, nextId, req, answer, schedule, tripReq>>

\* ------------------------------------------------------------------ bounds

\* Order primary keys handed out (every Order.objects.create takes one).
MaxOrderId == 2
\* Ticket requests per order creation.
MaxTickets == 2
\* Seat numbers a request may carry: 0..MaxSeat.
MaxSeat == 2
\* Wall-clock readings, in hours: 0..MaxNow.
MaxNow == 1
\* passengers_count of an availability question: 1..MaxPassengers.
MaxPassengers == 3
\* Departure and arrival instants of the scheduler's trips: 0..MaxTime.
MaxTime == 2
\* The Trip table holds at most MaxTrips rows.
MaxTrips == 2

\* ------------------------------------------------- reference data (catalog)

Clients == {"c1", "c2"}

Users == {"alice", "bob", "admin"}

\* request.user: each client connection is the authenticated session of one
\* (non-staff) user; the staff user only calls the single-order operations.
SessionUser == [c \in Clients |-> IF c = "c1" THEN "alice" ELSE "bob"]

is_staff(u) == u = "admin"

\* Train A has the coupe wagons w1 (1 seat) and w3 (2 seats) and the economy
\* wagon w4 (1 seat); train B has the coupe wagon w2 (1 seat).
Wagons == {"w1", "w2", "w3", "w4"}

WagonTrain == [w \in Wagons |-> IF w = "w2" THEN "B" ELSE "A"]

WagonSeats == [w \in Wagons |-> IF w = "w3" THEN 2 ELSE 1]

\* Wagon.type, named by WagonType.name.
WagonTypes == {"coupe", "economy"}

WagonType == [w \in Wagons |-> IF w = "w4" THEN "economy" ELSE "coupe"]

\* The wagons that the requests of the booking specifications ask for.
RequestWagons == {"w1", "w2"}

Trips == {"t1", "t2"}

TripTrain == [t \in Trips |-> "A"]

\* Hours from the epoch of the model's clock.
departure_time == [t \in Trips |-> IF t = "t1" THEN 26 ELSE 24]

PassengerTypes == {"adult", "child"}

requires_document == [p \in PassengerTypes |-> p = "adult"]

\* PassengerType.code: the passenger types are named by their code.
code(p) == p

Documents == {"", "AB123"}

Statuses == {"pending", "paid", "cancelled"}

\* One element of the "tickets" list of POST /orders. A document is sent only
\* for a passenger type that asks for one (no code reads it otherwise).
TicketInputs ==
    {x \in [trip : Trips, wagon : RequestWagons, seat_number : 0..MaxSeat,
            passenger_type : PassengerTypes, passenger_document : Documents] :
        x.passenger_document # "" => requires_document[x.passenger_type]}

\* ------------------------------------------------------------ table rows

Seat(x) == <<x.trip, x.wagon, x.seat_number>>

\* The Ticket row that Ticket.objects.create(order=order, **ticket_data) writes.
TicketRow(tk, o) ==
    [trip |-> tk.trip, wagon |-> tk.wagon, seat_number |-> tk.seat_number,
     order |-> o, passenger_type |-> tk.passenger_type,
     passenger_document |-> tk.passenger_document]

OrderRow(o, u) == [id |-> o, user |-> u, status |-> "pending"]

OrderIds == {o.id : o \in orders}

OrderById(i) == CHOOSE o \in orders : o.id = i

TicketsOf(i) == {t \in tickets : t.order = i}

\* ------------------------------------------------------ requests in flight

NoRequest ==
    [pc |-> "idle", path |-> "api", data |-> <<>>, n |-> 0, errors |-> {},
     order |-> 0, tx |-> {}]

\* The rows client c's open transaction has written and not yet committed.
Uncommitted(c) == req[c].tx

\* The answer of the step just taken; NoAnswer after a step that answers nobody.
NoAnswer ==
    [op |-> "none", user |-> "alice", order |-> 0, now |-> 0, status |-> "",
     outcome |-> "", errors |-> {}]

Answer(op, u, i, now, st, outcome, errs) ==
    [op |-> op, user |-> u, order |-> i, now |-> now, status |-> st,
     outcome |-> outcome, errors |-> errs]

\* --------------------------------------------------- ticket validation

\* UniqueTogetherValidator(queryset=Ticket.objects.all(),
\*                         fields=[trip, wagon, seat_number]).
UniqueTogetherValidator(tk, rows) == \E t \in rows : Seat(t) = Seat(tk)

\* validate without the upper limit wagon.seats on the seat number.
validate_NoSeatLimit(tk) ==
    IF tk.seat_number = 0 THEN "ValidationError"
    ELSE IF WagonTrain[tk.wagon] # TripTrain[tk.trip] THEN "WagonTripMismatch"
    ELSE IF tk.seat_number <= 0 THEN "InvalidSeat"
    ELSE IF requires_document[tk.passenger_type] /\ tk.passenger_document = ""
         THEN "MissingDocument"
    ELSE "ok"

\* TicketSerializer.validate: the first check that fails, or "ok".
validate(tk) ==
    IF tk.seat_number = 0 THEN "ValidationError"
    ELSE IF WagonTrain[tk.wagon] # TripTrain[tk.trip] THEN "WagonTripMismatch"
    ELSE IF tk.seat_number <= 0 \/ tk.seat_number > WagonSeats[tk.wagon]
         THEN "InvalidSeat"
    ELSE IF requires_document[tk.passenger_type] /\ tk.passenger_document = ""
         THEN "MissingDocument"
    ELSE "ok"

\* Serializer.run_validation of one list item: the validators run first, then
\* validate().
run_validation(tk, rows) ==
    IF UniqueTogetherValidator(tk, rows) THEN "SeatConflict" ELSE validate(tk)

\* ------------------------------------------------- POST /orders (the API)

\* OrderViewSet.create: a request arrives on connection c; is_valid() starts.
Post(c) ==
    /\ req[c].pc = "idle"
    /\ req' = [req EXCEPT ![c] = [NoRequest EXCEPT !.pc = "validating"]]
    /\ answer' = NoAnswer
    /\ UNCHANGED <<orders, tickets, nextId, schedule, tripReq>>

\* ListSerializer.to_internal_value: the next item of the "tickets" list is
\* validated against the committed rows; the errors of all items are collected.
ValidateTicket(c, tk) ==
    /\ req[c].pc = "validating"
    /\ req[c].n < MaxTickets
    /\ LET e == run_validation(tk, tickets)
           bad == req[c].errors # {} \/ e # "ok"
       IN req' = [req EXCEPT ![c] =
                    [@ EXCEPT !.n = @ + 1,
                              !.errors = IF e = "ok" THEN @ ELSE @ \cup {e},
                              !.data = IF bad THEN <<>> ELSE Append(@, tk)]]
    /\ answer' = NoAnswer
    /\ UNCHANGED <<orders, tickets, nextId, schedule, tripReq>>

\* OrderCreateSerializer.validate_tickets on the validated list of n items.
validate_tickets(n) == IF n = 0 THEN {"EmptyOrder"} ELSE {}

\* The errors is_valid() ends with.
is_valid_errors(r) == IF r.errors # {} THEN r.errors ELSE validate_tickets(r.n)

\* is_valid(raise_exception=True) fails: 400 with the errors; nothing is written.
Reject(c) ==
    /\ req[c].pc = "validating"
    /\ is_valid_errors(req[c]) # {}
    /\ req' = [req EXCEPT ![c] = NoRequest]
    /\ answer' = Answer("create", SessionUser[c], 0, 0, "", "invalid", {})
    /\ UNCHANGED <<orders, tickets, nextId, schedule, tripReq>>

\* is_valid() passes: the view enters transaction.atomic() and
\* OrderCreateSerializer.create writes the Order row.
Begin(c) ==
    /\ req[c].pc = "validating"
    /\ is_valid_errors(req[c]) = {}
    /\ nextId <= MaxOrderId
    /\ req' = [req EXCEPT ![c] = [@ EXCEPT !.pc = "creating", !.order = nextId]]
    /\ nextId' = nextId + 1
    /\ answer' = NoAnswer
    /\ UNCHANGED <<orders, tickets, schedule, tripReq>>

\* The price the creation loop computes before Ticket.objects.create:
\* base_price * 0.5 multiplies a Decimal by a float, which raises TypeError.
LoopPriceRaises(tk) == code(tk.passenger_type) = "child"

\* InsertOutcome without the unique_together constraint on Ticket.
InsertOutcome_NoUniqueConstraint(c, tk) ==
    IF LoopPriceRaises(tk) THEN "TypeError" ELSE "ok"

\* InsertOutcome with the uniqueness checked against committed rows only, as a
\* check-then-insert in the application would.
InsertOutcome_CommittedOnly(c, tk) ==
    IF LoopPriceRaises(tk) THEN "TypeError"
    ELSE IF UniqueTogetherValidator(tk, tickets \cup Uncommitted(c))
         THEN "IntegrityError"
    ELSE "ok"

\* What writing tk's row in client c's transaction meets.
InsertOutcome(c, tk) ==
    IF LoopPriceRaises(tk) THEN "TypeError"
    ELSE IF UniqueTogetherValidator(tk, tickets \cup Uncommitted(c))
         THEN "IntegrityError"
    ELSE IF \E d \in Clients \ {c} : UniqueTogetherValidator(tk, Uncommitted(d))
         THEN "wait"
    ELSE "ok"

\* Rollback that undoes the tickets only: the Order row written at the start
\* of the block stays.
Rollback_KeepsOrder(c, outcome) ==
    /\ orders' = orders \cup {OrderRow(req[c].order, SessionUser[c])}
    /\ req' = [req EXCEPT ![c] = NoRequest]
    /\ answer' = Answer("create", SessionUser[c], req[c].order, 0, "", outcome, {})
    /\ UNCHANGED <<tickets, nextId, schedule, tripReq>>

\* An exception leaves the atomic block: everything the transaction wrote is
\* rolled back and the caller gets the error.
Rollback(c, outcome) ==
    /\ req' = [req EXCEPT ![c] = NoRequest]
    /\ answer' = Answer("create", SessionUser[c], req[c].order, 0, "", outcome, {})
    /\ UNCHANGED <<orders, tickets, nextId, schedule, tripReq>>

\* One iteration of the loop over the ticket data inside transaction.atomic().
InsertTicket(c, tk) ==
    LET out == InsertOutcome(c, tk)
    IN /\ out # "wait"
       /\ IF out = "ok"
          THEN /\ req' = [req EXCEPT ![c] =
                            [@ EXCEPT !.tx = @ \cup {TicketRow(tk, req[c].order)}]]
               /\ answer' = NoAnswer
               /\ UNCHANGED <<orders, tickets, nextId, schedule, tripReq>>
          ELSE Rollback(c, out)

\* The index of the next item the API's loop will write.
NextIndex(c) == Cardinality(req[c].tx) + 1

\* OrderCreateSerializer.create: Ticket.objects.create for the next item.
CreateTicket(c) ==
    /\ req[c].pc = "creating"
    /\ req[c].path = "api"
    /\ NextIndex(c) <= Len(req[c].data)
    /\ InsertTicket(c, req[c].data[NextIndex(c)])

\* CommitRows that attaches the tickets to no order of their own: every new
\* ticket is filed under order 1.
CommitRows_SharedOrder(c) ==
    /\ orders' = orders \cup {OrderRow(req[c].order, SessionUser[c])}
    /\ tickets' = tickets \cup {[t EXCEPT !.order = 1] : t \in req[c].tx}
    /\ req' = [req EXCEPT ![c] = NoRequest]
    /\ answer' = Answer("create", SessionUser[c], req[c].order, 0, "", "created", {})
    /\ UNCHANGED <<nextId, schedule, tripReq>>

\* The atomic block ends: the Order and its Tickets become visible together.
CommitRows(c) ==
    /\ orders' = orders \cup {OrderRow(req[c].order, SessionUser[c])}
    /\ tickets' = tickets \cup req[c].tx
    /\ req' = [req EXCEPT ![c] = NoRequest]
    /\ answer' = Answer("create", SessionUser[c], req[c].order, 0, "", "created", {})
    /\ UNCHANGED <<nextId, schedule, tripReq>>

\* OrderViewSet.create returns 201.
Commit(c) ==
    /\ req[c].pc = "creating"
    /\ req[c].path = "api"
    /\ NextIndex(c) > Len(req[c].data)
    /\ CommitRows(c)

\* Client c's next INSERT waits for a row that d's transaction holds.
Waiting(c, d) ==
    /\ req[c].pc = "creating"
    /\ req[c].path = "api"
    /\ NextIndex(c) <= Len(req[c].data)
    /\ ~LoopPriceRaises(req[c].data[NextIndex(c)])
    /\ ~UniqueTogetherValidator(req[c].data[NextIndex(c)], tickets \cup Uncommitted(c))
    /\ UniqueTogetherValidator(req[c].data[NextIndex(c)], Uncommitted(d))

\* Deadlock on a database that never detects the cycle: both transactions
\* keep waiting.
Deadlock_Undetected(c) ==
    /\ \E d \in Clients \ {c} : Waiting(c, d) /\ Waiting(d, c)
    /\ UNCHANGED <<orders, tickets, nextId, req, answer, schedule, tripReq>>

\* Two transactions each wait for a row of the other: the database aborts one
\* of them (OperationalError), which the view answers like any exception.
Deadlock(c) ==
    /\ \E d \in Clients \ {c} : Waiting(c, d) /\ Waiting(d, c)
    /\ Rollback(c, "OperationalError")

\* ------------------------------------------- OrderService.create_order

\* transaction.atomic() is entered and the Order is written; nothing is
\* validated.
ServiceCreateOrder(c) ==
    /\ req[c].pc = "idle"
    /\ nextId <= MaxOrderId
    /\ req' = [req EXCEPT ![c] =
                 [NoRequest EXCEPT !.pc = "creating", !.path = "service",
                                   !.order = nextId]]
    /\ nextId' = nextId + 1
    /\ answer' = NoAnswer
    /\ UNCHANGED <<orders, tickets, schedule, tripReq>>

\* The next element of tickets_data is written.
ServiceCreateTicket(c, tk) ==
    /\ req[c].pc = "creating"
    /\ req[c].path = "service"
    /\ Cardinality(req[c].tx) < MaxTickets
    /\ InsertTicket(c, tk)

\* tickets_data is exhausted: the block commits and the order is returned.
ServiceReturn(c) ==
    /\ req[c].pc = "creating"
    /\ req[c].path = "service"
    /\ CommitRows(c)

\* ------------------------------------------- OrderService.cancel_order

CancellationWindowHours == 24

\* cancel_outcome without the test of the order's status.
cancel_outcome_NoStatusCheck(i, u, now) ==
    IF i \notin OrderIds THEN "NotFound"
    ELSE IF ~is_staff(u) /\ OrderById(i).user # u THEN "Forbidden"
    ELSE IF \E t \in TicketsOf(i) :
                departure_time[t.trip] <= now + CancellationWindowHours
         THEN "CancellationWindowClosed"
    ELSE "ok"

\* cancel_outcome that lets a departure exactly 24 hours away through.
cancel_outcome_StrictWindow(i, u, now) ==
    IF i \notin OrderIds THEN "NotFound"
    ELSE IF ~is_staff(u) /\ OrderById(i).user # u THEN "Forbidden"
    ELSE IF OrderById(i).status # "pending" THEN "InvalidState"
    ELSE IF \E t \in TicketsOf(i) :
                departure_time[t.trip] < now + CancellationWindowHours
         THEN "CancellationWindowClosed"
    ELSE "ok"

\* cancel_outcome without the ownership check.
cancel_outcome_NoOwnerCheck(i, u, now) ==
    IF i \notin OrderIds THEN "NotFound"
    ELSE IF OrderById(i).status # "pending" THEN "InvalidState"
    ELSE IF \E t \in TicketsOf(i) :
                departure_time[t.trip] <= now + CancellationWindowHours
         THEN "CancellationWindowClosed"
    ELSE "ok"

\* cancel_outcome that tests the status and the window before the ownership.
cancel_outcome_OwnerLast(i, u, now) ==
    IF i \notin OrderIds THEN "NotFound"
    ELSE IF OrderById(i).status # "pending" THEN "InvalidState"
    ELSE IF \E t \in TicketsOf(i) :
                departure_time[t.trip] <= now + CancellationWindowHours
         THEN "CancellationWindowClosed"
    ELSE IF ~is_staff(u) /\ OrderById(i).user # u THEN "Forbidden"
    ELSE "ok"

\* The outcome of cancel_order(order_id, user) at wall-clock time now: the
\* checks in the order the code makes them.
cancel_outcome(i, u, now) ==
    IF i \notin OrderIds THEN "NotFound"
    ELSE IF ~is_staff(u) /\ OrderById(i).user # u THEN "Forbidden"
    ELSE IF OrderById(i).status # "pending" THEN "InvalidState"
    ELSE IF \E t \in TicketsOf(i) :
                departure_time[t.trip] <= now + CancellationWindowHours
         THEN "CancellationWindowClosed"
    ELSE "ok"

SetStatus(i, st) ==
    {IF o.id = i THEN [o EXCEPT !.status = st] ELSE o : o \in orders}

cancel_order(i, u, now) ==
    LET out == cancel_outcome(i, u, now)
    IN /\ orders' = IF out = "ok" THEN SetStatus(i, "cancelled") ELSE orders
       /\ answer' = Answer("cancel", u, i, now, "", out, {})
       /\ UNCHANGED <<tickets, nextId, req, schedule, tripReq>>

\* ------------------------------- PUT, PATCH and DELETE /orders/{id}

\* get_queryset that returns all orders to every user.
get_queryset_Everyone(u) == orders

\* OrderViewSet.get_queryset: the orders the requesting user may address.
get_queryset(u) == IF is_staff(u) THEN orders ELSE {o \in orders : o.user = u}

\* ModelViewSet.update with OrderSerializer, whose "status" field is writable.
UpdateOrder(i, u, st) ==
    LET found == \E o \in get_queryset(u) : o.id = i
    IN /\ orders' = IF found THEN SetStatus(i, st) ELSE orders
       /\ answer' = Answer("update", "alice", 0, 0, "",
                           IF found THEN "ok" ELSE "NotFound", {})
       /\ UNCHANGED <<tickets, nextId, req, schedule, tripReq>>

\* ModelViewSet.destroy: the Order is deleted and, by on_delete=CASCADE, so
\* are its Tickets.
DestroyOrder(i, u) ==
    LET found == \E o \in get_queryset(u) : o.id = i
    IN /\ orders' = IF found THEN {o \in orders : o.id # i} ELSE orders
       /\ tickets' = IF found THEN {t \in tickets : t.order # i} ELSE tickets
       /\ answer' = Answer("destroy", "alice", 0, 0, "",
                           IF found THEN "ok" ELSE "NotFound", {})
       /\ UNCHANGED <<nextId, req, schedule, tripReq>>

\* ------------------------------------------------------- seat inventory

\* WagonType.fare_multiplier in hundredths (2.00 and 1.00).
fare_multiplier == [wt \in WagonTypes |-> IF wt = "coupe" THEN 200 ELSE 100]

\* sum(wagon.seats for wagon in W).
RECURSIVE SumSeats(_)
SumSeats(W) ==
    IF W = {} THEN 0
    ELSE LET w == CHOOSE x \in W : TRUE
         IN WagonSeats[w] + SumSeats(W \ {w})

\* sold_seats that leaves out the tickets of cancelled orders.
sold_seats_ExceptCancelled(w, t) ==
    Cardinality({tk \in tickets :
                    /\ tk.wagon = w
                    /\ tk.trip = t
                    /\ \E o \in orders : o.id = tk.order /\ o.status # "cancelled"})

\* Wagon.sold_seats(trip): self.tickets.filter(trip=trip).count().
sold_seats(w, t) == Cardinality({tk \in tickets : tk.wagon = w /\ tk.trip = t})

\* available_seats that takes the branch for trip=None whatever the trip.
available_seats_AnyTrip(w, t) ==
    WagonSeats[w] - Cardinality({tk \in tickets : tk.wagon = w})

\* Wagon.available_seats(trip).
available_seats(w, t) == WagonSeats[w] - sold_seats(w, t)

\* The calendar day of an hour of the model's clock.
DateOf(h) == h \div 24

\* trip.train.wagons.
TrainWagons(t) == {w \in Wagons : WagonTrain[w] = TripTrain[t]}

\* get_available_seats_by_class that counts the tickets of every trip of the
\* train on the travel date.
get_available_seats_by_class_AllTrips(t, travel_date) ==
    LET tickets_qs ==
            {tk \in tickets : /\ TripTrain[tk.trip] = TripTrain[t]
                              /\ DateOf(departure_time[tk.trip]) = travel_date}
    IN [cn \in {WagonType[w] : w \in TrainWagons(t)} |->
          LET total == SumSeats({w \in TrainWagons(t) : WagonType[w] = cn})
              booked == Cardinality({tk \in tickets_qs : WagonType[tk.wagon] = cn})
          IN [total_seats |-> total,
              booked_seats |-> booked,
              available_seats |-> total - booked,
              fare_multiplier |-> fare_multiplier[cn]]]

\* Trip.get_available_seats_by_class(travel_date): one entry per wagon class
\* of the trip's train.
get_available_seats_by_class(t, travel_date) ==
    LET tickets_qs ==
            {tk \in tickets : /\ tk.trip = t
                              /\ DateOf(departure_time[tk.trip]) = travel_date}
    IN [cn \in {WagonType[w] : w \in TrainWagons(t)} |->
          LET total == SumSeats({w \in TrainWagons(t) : WagonType[w] = cn})
              booked == Cardinality({tk \in tickets_qs : WagonType[tk.wagon] = cn})
          IN [total_seats |-> total,
              booked_seats |-> booked,
              available_seats |-> total - booked,
              fare_multiplier |-> fare_multiplier[cn]]]

\* travel_date=None: the trip's own departure date.
DefaultDate(t) == DateOf(departure_time[t])

\* ----------------------------------------------------------------- fares

\* A decimal.Decimal: coef * 10^(-exp), exp being its number of decimal places.
Decimal(coef, exp) == [coef |-> coef, exp |-> exp]

RECURSIVE Pow10(_)
Pow10(n) == IF n = 0 THEN 1 ELSE 10 * Pow10(n - 1)

\* a * b: the coefficients multiply and the decimal places add up.
DecMul(a, b) == Decimal(a.coef * b.coef, a.exp + b.exp)

\* a - b: at the larger number of decimal places of the two.
DecSub(a, b) ==
    LET e == IF a.exp >= b.exp THEN a.exp ELSE b.exp
    IN Decimal(a.coef * Pow10(e - a.exp) - b.coef * Pow10(e - b.exp), e)

\* The value of a non-negative Decimal with at most 7 decimal places, in
\* units of 10^-7.
Units(a) == a.coef * Pow10(7 - a.exp)

\* The number of digits of str(n).
Digits(n) == IF n < 10 THEN 1 ELSE IF n < 100 THEN 2 ELSE 3

\* Decimal(f"0.{discount_percent}").
DiscountDecimal(d) == Decimal(d, Digits(d))

\* Ticket.compute_price, from trip.base_price and wagon_type.fare_multiplier
\* (both in hundredths, read from DecimalFields with decimal_places=2) and
\* passenger_type.discount_percent.
compute_price(b, m, d) ==
    LET base == DecMul(Decimal(b, 2), Decimal(m, 2))
    IN IF d > 0
       THEN DecMul(base, DecSub(Decimal(1, 0), DiscountDecimal(d)))
       ELSE base

\* Decimal.quantize(Decimal("0.01")) of a non-negative value under the rounding
\* mode of the context.
quantize(a, rounding) ==
    IF a.exp <= 2 THEN Decimal(a.coef * Pow10(2 - a.exp), 2)
    ELSE LET p == Pow10(a.exp - 2)
             q == a.coef \div p
             r == a.coef % p
             up == \/ 2 * r > p
                   \/ /\ 2 * r = p
                      /\ \/ rounding = "ROUND_HALF_UP"
                         \/ rounding = "ROUND_HALF_EVEN" /\ q % 2 = 1
         IN Decimal(IF up THEN q + 1 ELSE q, 2)

\* Trip.calculate_price for a class the train has: the default context of the
\* decimal module rounds half to even.
calculate_price(b, m, passengers_count) ==
    quantize(DecMul(DecMul(Decimal(b, 2), Decimal(m, 2)),
                    Decimal(passengers_count, 0)),
             "ROUND_HALF_EVEN")

\* The rounding of the storage layer when a price with more than two decimal
\* places is written to Ticket.price (max_digits=8, decimal_places=2): half to
\* even in Django's format_number (SQLite), half away from zero in a
\* PostgreSQL numeric column.
StorageRoundings == {"ROUND_HALF_EVEN", "ROUND_HALF_UP"}

\* Ticket.save: the price is replaced by compute_price() and written.
saved_price(b, m, d, rounding) == quantize(compute_price(b, m, d), rounding)

\* The prices that creating one ticket persists: the creation loop evaluates
\* base_price * 0.5 for the code "child" (TypeError, the transaction rolls
\* back); for any other code Ticket.objects.create(price=price, ...) calls
\* save(), which overwrites the price passed by the loop.
created_prices(b, m, pcode, d, rounding) ==
    IF pcode = "child" THEN {} ELSE {saved_price(b, m, d, rounding)}

\* Inputs of the fare calculations: base prices 0.05, 1.50 and 100.00, fare
\* multipliers 0.50, 0.75, 1.00 and 2.00.
BasePrices == {5, 150, 10000}

FareMultipliers == {50, 75, 100, 200}

DiscountPercents == {0, 5, 10, 50, 99, 100}

PassengerCodes == {"adult", "child", "infant"}

\* A call of Ticket.compute_price.
ComputePrice(b, m, d) ==
    /\ answer' = [op |-> "compute_price", base_price |-> b,
                  fare_multiplier |-> m, discount_percent |-> d,
                  price |-> compute_price(b, m, d)]
    /\ UNCHANGED <<orders, tickets, nextId, req, schedule, tripReq>>

\* A call of Ticket.save and the price the row then holds.
SaveTicket(b, m, d, rounding) ==
    /\ answer' = [op |-> "save", base_price |-> b,
                  fare_multiplier |-> m, discount_percent |-> d,
                  price |-> saved_price(b, m, d, rounding)]
    /\ UNCHANGED <<orders, tickets, nextId, req, schedule, tripReq>>

\* A call of Trip.calculate_price.
CalculatePrice(b, m, n) ==
    /\ answer' = [op |-> "calculate_price", base_price |-> b,
                  fare_multiplier |-> m, passengers_count |-> n,
                  price |-> calculate_price(b, m, n)]
    /\ UNCHANGED <<orders, tickets, nextId, req, schedule, tripReq>>

\* Two creations of one ticket on the same deployment that differ only in the
\* code of the passenger type.
CreatePair(b, m, d, code1, code2, rounding) ==
    /\ answer' = [op |-> "create_pair", base_price |-> b,
                  fare_multiplier |-> m, discount_percent |-> d,
                  codes |-> <<code1, code2>>,
                  first |-> created_prices(b, m, code1, d, rounding),
                  second |-> created_prices(b, m, code2, d, rounding)]
    /\ UNCHANGED <<orders, tickets, nextId, req, schedule, tripReq>>

\* The travel dates asked for: the day before the departures and their day.
TravelDates == {0, 1}

\* wagon.sold_seats(trip) and wagon.available_seats(trip) are read.
WagonAvailability(w, t) ==
    /\ answer' = [op |-> "wagon_seats", wagon |-> w, trip |-> t,
                  sold |-> sold_seats(w, t),
                  available |-> available_seats(w, t)]
    /\ UNCHANGED <<orders, tickets, nextId, req, schedule, tripReq>>

\* trip.get_available_seats_by_class(travel_date) is read.
AvailabilityByClass(t, travel_date) ==
    /\ answer' = [op |-> "availability", trip |-> t, travel_date |-> travel_date,
                  result |-> get_available_seats_by_class(t, travel_date)]
    /\ UNCHANGED <<orders, tickets, nextId, req, schedule, tripReq>>

\* The wagon_class argument of an availability question: a class of the
\* catalog, a class that no wagon has, or "" for no class.
ClassInputs == WagonTypes \cup {"lux", ""}

\* is_available_for_booking that adds up the free seats of all classes.
is_available_for_booking_Pooled(t, passengers_count, wagon_class) ==
    LET available_by_class == get_available_seats_by_class(t, DefaultDate(t))
        RECURSIVE Sum(_)
        Sum(C) == IF C = {} THEN 0
                  ELSE LET cn == CHOOSE x \in C : TRUE
                       IN available_by_class[cn].available_seats + Sum(C \ {cn})
    IN IF wagon_class # ""
       THEN IF wagon_class \notin DOMAIN available_by_class THEN FALSE
            ELSE available_by_class[wagon_class].available_seats >= passengers_count
       ELSE Sum(DOMAIN available_by_class) >= passengers_count

\* Trip.is_available_for_booking(passengers_count, wagon_class) with the
\* default travel date.
is_available_for_booking(t, passengers_count, wagon_class) ==
    LET available_by_class == get_available_seats_by_class(t, DefaultDate(t))
    IN IF wagon_class # ""
       THEN IF wagon_class \notin DOMAIN available_by_class THEN FALSE
            ELSE available_by_class[wagon_class].available_seats >= passengers_count
       ELSE \E cn \in DOMAIN available_by_class :
               available_by_class[cn].available_seats >= passengers_count

\* trip.is_available_for_booking(passengers_count, wagon_class) is read.
IsAvailableForBooking(t, passengers_count, wagon_class) ==
    /\ answer' = [op |-> "is_available", trip |-> t,
                  passengers_count |-> passengers_count,
                  wagon_class |-> wagon_class,
                  result |-> is_available_for_booking(t, passengers_count,
                                                      wagon_class)]
    /\ UNCHANGED <<orders, tickets, nextId, req, schedule, tripReq>>

\* Trip.base_price, in hundredths: both trips cost 50.00.
base_price == [t \in Trips |-> 5000]

\* The date query parameter of the seat map: absent, malformed, or one of the
\* days of TravelDates written as YYYY-MM-DD.
DateStrings == {"", "bad", "day0", "day1"}

\* datetime.strptime(date_str, "%Y-%m-%d").date(): the date, or the
\* ValueError raised when the text is not a date.
strptime(date_str) ==
    IF date_str = "day0" THEN [raises |-> "", date |-> 0]
    ELSE IF date_str = "day1" THEN [raises |-> "", date |-> 1]
    ELSE [raises |-> "ValueError", date |-> 0]

\* float(d) of a Decimal of at most 11 significant digits, which a double
\* tells apart: its value, in units of 10^-7.
float(d) == Units(d)

\* The queryset of the seat map, filtered by trip and wagon only.
booked_seats_AnyDate(t, w, check_date) ==
    {tk.seat_number : tk \in {x \in tickets : x.trip = t /\ x.wagon = w}}

\* Ticket.objects.filter(trip=trip, wagon=wagon,
\* trip__departure_time__date=check_date).values_list("seat_number").
booked_seats(t, w, check_date) ==
    {tk.seat_number : tk \in {x \in tickets : /\ x.trip = t
                                              /\ x.wagon = w
                                              /\ DateOf(departure_time[x.trip])
                                                    = check_date}}

\* The seat_data list of the seat map.
seat_data(t, w, check_date) ==
    [seat_number \in 1..WagonSeats[w] |->
        [number |-> seat_number,
         is_available |-> seat_number \notin booked_seats(t, w, check_date),
         price |-> float(DecMul(Decimal(base_price[t], 2),
                                Decimal(fare_multiplier[WagonType[w]], 2)))]]

\* TripViewSet.wagon_seats: GET trips/<t>/wagons/<w>/seats/?date=<date_str>.
wagon_seats(t, w, date_str) ==
    IF WagonTrain[w] # TripTrain[t]
    THEN [op |-> "seat_map", trip |-> t, wagon |-> w, date |-> date_str,
          status |-> 404, seats |-> <<>>]
    ELSE IF date_str # "" /\ strptime(date_str).raises = "ValueError"
    THEN [op |-> "seat_map", trip |-> t, wagon |-> w, date |-> date_str,
          status |-> 400, seats |-> <<>>]
    ELSE LET check_date == IF date_str # "" THEN strptime(date_str).date
                           ELSE DateOf(departure_time[t])
         IN [op |-> "seat_map", trip |-> t, wagon |-> w, date |-> date_str,
             status |-> 200, seats |-> seat_data(t, w, check_date)]

WagonSeatsView(t, w, date_str) ==
    /\ answer' = wagon_seats(t, w, date_str)
    /\ UNCHANGED <<orders, tickets, nextId, req, schedule, tripReq>>

\* The number of entries with is_available = false in the seat maps of the
\* wagons W for one date.
RECURSIVE UnavailableSeats(_, _, _)
UnavailableSeats(t, W, date_str) ==
    IF W = {} THEN 0
    ELSE LET w == CHOOSE x \in W : TRUE
             seats == wagon_seats(t, w, date_str).seats
         IN Cardinality({k \in 1..Len(seats) : ~seats[k].is_available})
               + UnavailableSeats(t, W \ {w}, date_str)

\* A client reads the seat maps of every wagon of one class of the trip's
\* train and the availability by class, both for the same date.
SeatMapsAndAvailability(t, cn, date_str) ==
    /\ strptime(date_str).raises = ""
    /\ cn \in DOMAIN get_available_seats_by_class(t, strptime(date_str).date)
    /\ answer' = [op |-> "seat_maps_and_availability", trip |-> t,
                  wagon_class |-> cn, date |-> date_str,
                  unavailable |->
                      UnavailableSeats(t, {w \in TrainWagons(t) : WagonType[w] = cn},
                                       date_str),
                  booked_seats |->
                      get_available_seats_by_class(
                          t, strptime(date_str).date)[cn].booked_seats]
    /\ UNCHANGED <<orders, tickets, nextId, req, schedule, tripReq>>

\* The entry of get_dates_availability for trip_obj: per wagon of the train
\* the seats less the booked (wagon, seat) pairs of the trip on its own date,
\* and is_available when some wagon has enough seats.
dates_availability_entry(trip_obj, passengers_count) ==
    LET travel_date == DateOf(departure_time[trip_obj])
        booked == {<<tk.wagon, tk.seat_number>> :
                      tk \in {x \in tickets :
                                 /\ x.trip = trip_obj
                                 /\ DateOf(departure_time[x.trip]) = travel_date}}
        wagons_data ==
            [w \in TrainWagons(trip_obj) |->
                LET wagon_booked_seats == Cardinality({b \in booked : b[1] = w})
                    available == WagonSeats[w] - wagon_booked_seats
                IN [wagon_type |-> WagonType[w],
                    total_seats |-> WagonSeats[w],
                    booked_seats |-> wagon_booked_seats,
                    available_seats |-> available,
                    has_enough_seats |-> available >= passengers_count]]
    IN [trip_id |-> trip_obj,
        is_available |-> \E w \in DOMAIN wagons_data :
                            wagons_data[w].has_enough_seats,
        wagons |-> wagons_data]

\* The search keeps the trip when is_available_for_booking(passengers_count,
\* wagon_class=None, travel_date=search_date) holds, search_date being the
\* trip's departure date; the availability endpoint reports the entry of the
\* same trip for the same passengers_count.
SearchAndAvailability(t, passengers_count) ==
    /\ answer' = [op |-> "search_and_availability", trip |-> t,
                  passengers_count |-> passengers_count,
                  search |-> is_available_for_booking(t, passengers_count, ""),
                  availability |->
                      dates_availability_entry(t, passengers_count)]
    /\ UNCHANGED <<orders, tickets, nextId, req, schedule, tripReq>>

\* ------------------------------------------------------------ GET /orders

\* Order.created_at, stamped by auto_now_add at the INSERT that allocates the
\* id: the creation instants are ordered as the ids are.
created_at(o) == o.id

\* Order.Meta.ordering = ["-created_at"] applied to a queryset.
RECURSIVE order_by_created_at_desc(_)
order_by_created_at_desc(qs) ==
    IF qs = {} THEN <<>>
    ELSE LET first == CHOOSE o \in qs :
                         \A p \in qs : created_at(p) <= created_at(o)
         IN <<first>> \o order_by_created_at_desc(qs \ {first})

\* ModelViewSet.list over get_queryset(), with no pagination configured.
ListOrders(u) ==
    /\ answer' = [op |-> "list", user |-> u,
                  result |-> order_by_created_at_desc(get_queryset(u))]
    /\ UNCHANGED <<orders, tickets, nextId, req, schedule, tripReq>>

\* ---------------------------------------------------------- trip scheduler

Trains == {"A", "B"}

\* Two sessions of staff users: the trip endpoints are for IsAdminUser.
Staff == {"s1", "s2"}

\* The data of a trip write: a train and two instants in 0..MaxTime.
TripInputs ==
    [train : Trains, departure_time : 0..MaxTime, arrival_time : 0..MaxTime]

NoTripRequest == [pc |-> "idle", data |-> <<>>, id |-> 0]

TripIds == {r.id : r \in schedule}

\* clean whose overlap test counts trips that only touch.
clean_ClosedIntervals(self) ==
    IF self.arrival_time <= self.departure_time THEN "TimeOrderError"
    ELSE LET overlapping ==
                 {r \in schedule :
                     /\ r.train = self.train
                     /\ r.departure_time <= self.arrival_time
                     /\ r.arrival_time >= self.departure_time
                     /\ r.id # self.id}
         IN IF overlapping # {} THEN "OverlapError" ELSE "ok"

\* Trip.clean of the instance self (id 0 when it is not stored yet): the
\* ValidationError it raises, named as the specification names them, or "ok".
clean(self) ==
    IF self.arrival_time <= self.departure_time THEN "TimeOrderError"
    ELSE LET overlapping ==
                 {r \in schedule :
                     /\ r.train = self.train
                     /\ r.departure_time < self.arrival_time
                     /\ r.arrival_time > self.departure_time
                     /\ r.id # self.id}
         IN IF overlapping # {} THEN "OverlapError" ELSE "ok"

\* Trip(**data) with instance.id = self.instance.id on an update.
TripInstance(data, i) ==
    [id |-> i, train |-> data.train, departure_time |-> data.departure_time,
     arrival_time |-> data.arrival_time]

TripAnswer(op, data, i, outcome) ==
    [op |-> op, data |-> data, id |-> i, outcome |-> outcome]

\* TripCreateUpdateSerializer.validate for POST /trips (i = 0) or
\* PUT /trips/{i}: a ValidationError is answered with 400, otherwise the
\* validated data wait for perform_create or perform_update.
TripValidate(c, data, i) ==
    /\ tripReq[c].pc = "idle"
    /\ i = 0 \/ i \in TripIds
    /\ i = 0 => Cardinality(schedule) < MaxTrips
    /\ LET outcome == clean(TripInstance(data, i))
       IN /\ tripReq' = IF outcome = "ok"
                        THEN [tripReq EXCEPT ![c] =
                                 [pc |-> "validated", data |-> data, id |-> i]]
                        ELSE tripReq
          /\ answer' = TripAnswer("validate_trip", data, i, outcome)
    /\ UNCHANGED <<orders, tickets, nextId, req, schedule>>

\* perform_create: serializer.save() inserts the validated data under the next
\* primary key.
perform_create(c) ==
    /\ tripReq[c].pc = "validated"
    /\ tripReq[c].id = 0
    /\ LET i == Cardinality(schedule) + 1
       IN /\ schedule' = schedule \cup {TripInstance(tripReq[c].data, i)}
          /\ answer' = TripAnswer("save_trip", tripReq[c].data, i, "ok")
    /\ tripReq' = [tripReq EXCEPT ![c] = NoTripRequest]
    /\ UNCHANGED <<orders, tickets, nextId, req>>

\* perform_update: serializer.save() rewrites the row of the instance.
perform_update(c) ==
    /\ tripReq[c].pc = "validated"
    /\ tripReq[c].id # 0
    /\ schedule' = {IF r.id = tripReq[c].id
                    THEN TripInstance(tripReq[c].data, r.id) ELSE r :
                       r \in schedule}
    /\ answer' = TripAnswer("save_trip", tripReq[c].data, tripReq[c].id, "ok")
    /\ tripReq' = [tripReq EXCEPT ![c] = NoTripRequest]
    /\ UNCHANGED <<orders, tickets, nextId, req>>

\* ------------------------------------------------------- specification

Init ==
    /\ orders = {}
    /\ tickets = {}
    /\ nextId = 1
    /\ req = [c \in Clients |-> NoRequest]
    /\ answer = NoAnswer
    /\ schedule = {}
    /\ tripReq = [c \in Staff |-> NoTripRequest]

\* POST /orders from two concurrent clients, and DELETE /orders/{id}.
Next ==
    \/ \E c \in Clients : Post(c)
    \/ \E c \in Clients, tk \in TicketInputs : ValidateTicket(c, tk)
    \/ \E c \in Clients : Reject(c)
    \/ \E c \in Clients : Begin(c)
    \/ \E c \in Clients : CreateTicket(c)
    \/ \E c \in Clients : Commit(c)
    \/ \E c \in Clients : Deadlock(c)
    \/ \E i \in 1..MaxOrderId, u \in Users : DestroyOrder(i, u)

Spec == Init /\ [][Next]_vars

\* The life of an order: POST /orders on one connection, cancel_order, and
\* PUT, PATCH and DELETE /orders/{id}, each by any user.
NextOrders ==
    \/ Post("c1")
    \/ \E tk \in TicketInputs : ValidateTicket("c1", tk)
    \/ Reject("c1")
    \/ Begin("c1")
    \/ CreateTicket("c1")
    \/ Commit("c1")
    \/ \E i \in 1..MaxOrderId, u \in Users, now \in 0..MaxNow : cancel_order(i, u, now)
    \/ \E i \in 1..MaxOrderId, u \in Users, st \in Statuses : UpdateOrder(i, u, st)
    \/ \E i \in 1..MaxOrderId, u \in Users : DestroyOrder(i, u)

SpecOrders == Init /\ [][NextOrders]_vars

\* OrderService.create_order, called by one caller at a time.
NextService ==
    \/ ServiceCreateOrder("c1")
    \/ \E tk \in TicketInputs : ServiceCreateTicket("c1", tk)
    \/ ServiceReturn("c1")

SpecService == Init /\ [][NextService]_vars

\* Two POST /orders requests that have both passed is_valid() before either
\* wrote a ticket, each valid on its own, asking for at least one common seat
\* of an empty train.
RaceTickets == {tk \in TicketInputs : validate(tk) = "ok" /\ ~LoopPriceRaises(tk)}

RaceRequests ==
    {d \in UNION {[1..k -> RaceTickets] : k \in 1..MaxTickets} :
        \A i, j \in DOMAIN d : Seat(d[i]) = Seat(d[j]) => i = j}

SeatsOf(d) == {Seat(d[i]) : i \in DOMAIN d}

InitRace ==
    /\ orders = {}
    /\ tickets = {}
    /\ nextId = 3
    /\ answer = NoAnswer
    /\ schedule = {}
    /\ tripReq = [c \in Staff |-> NoTripRequest]
    /\ \E d1, d2 \in RaceRequests :
          /\ SeatsOf(d1) \cap SeatsOf(d2) # {}
          /\ req = [c \in Clients |->
                      [NoRequest EXCEPT !.pc = "creating",
                                        !.data = IF c = "c1" THEN d1 ELSE d2,
                                        !.n = Len(IF c = "c1" THEN d1 ELSE d2),
                                        !.order = IF c = "c1" THEN 1 ELSE 2]]

NextRace ==
    \/ \E c \in Clients : CreateTicket(c)
    \/ \E c \in Clients : Commit(c)
    \/ \E c \in Clients : Deadlock(c)

SpecRace == InitRace /\ [][NextRace]_vars

\* The race with its scheduling: a request thread that can take a step
\* eventually takes one, and the database's deadlock detector eventually runs.
SpecRaceFair == InitRace /\ [][NextRace]_vars /\ WF_vars(NextRace)

\* The order endpoints after alice's order 1 for seat 1 of wagon w1 on trip t1
\* has been created: the state POST /orders leaves behind on an empty database.
FirstTicket ==
    [trip |-> "t1", wagon |-> "w1", seat_number |-> 1,
     passenger_type |-> "adult", passenger_document |-> "AB123"]

InitRebook ==
    /\ orders = {OrderRow(1, "alice")}
    /\ tickets = {TicketRow(FirstTicket, 1)}
    /\ nextId = 2
    /\ req = [c \in Clients |-> NoRequest]
    /\ answer = Answer("create", "alice", 1, 0, "", "created", {})
    /\ schedule = {}
    /\ tripReq = [c \in Staff |-> NoTripRequest]

SpecRebook == InitRebook /\ [][NextOrders]_vars

\* The fare calculations applied to inputs drawn from the sets above.
NextFare ==
    \/ \E b \in BasePrices, m \in FareMultipliers, d \in DiscountPercents :
          ComputePrice(b, m, d)
    \/ \E b \in BasePrices, m \in FareMultipliers, d \in DiscountPercents,
          r \in StorageRoundings : SaveTicket(b, m, d, r)
    \/ \E b \in BasePrices, m \in FareMultipliers, n \in 1..MaxTickets :
          CalculatePrice(b, m, n)
    \/ \E b \in BasePrices, m \in FareMultipliers, d \in DiscountPercents,
          code1, code2 \in PassengerCodes, r \in StorageRoundings :
             CreatePair(b, m, d, code1, code2, r)

SpecFare == Init /\ [][NextFare]_vars

\* The availability queries on a database that holds one order with up to
\* MaxTickets tickets, for any seats of any wagons (OrderService.create_order
\* writes what it is given; unique_together keeps the seats distinct).
InventoryRows ==
    {TicketRow([trip |-> t, wagon |-> w, seat_number |-> n,
                passenger_type |-> "adult", passenger_document |-> "AB123"], 1) :
        t \in Trips, w \in Wagons, n \in 1..MaxSeat}

InitInventory ==
    /\ orders = {OrderRow(1, "alice")}
    /\ tickets \in {T \in SUBSET InventoryRows : Cardinality(T) <= MaxTickets}
    /\ nextId = 2
    /\ req = [c \in Clients |-> NoRequest]
    /\ answer = NoAnswer
    /\ schedule = {}
    /\ tripReq = [c \in Staff |-> NoTripRequest]

NextInventory ==
    \/ \E w \in Wagons, t \in Trips : WagonAvailability(w, t)
    \/ \E t \in Trips, travel_date \in TravelDates :
          AvailabilityByClass(t, travel_date)
    \/ \E t \in Trips, n \in 1..MaxPassengers, cls \in ClassInputs :
          IsAvailableForBooking(t, n, cls)
    \/ \E t \in Trips, w \in Wagons, date_str \in DateStrings :
          WagonSeatsView(t, w, date_str)
    \/ \E t \in Trips, cn \in WagonTypes, date_str \in DateStrings :
          SeatMapsAndAvailability(t, cn, date_str)
    \/ \E t \in Trips, n \in 1..MaxPassengers : SearchAndAvailability(t, n)

SpecInventory == InitInventory /\ [][NextInventory]_vars

\* Order tables of up to MaxOrderId orders of any users and statuses, as
\* creations and status updates leave them.
InitList ==
    /\ orders \in {O \in SUBSET [id : 1..MaxOrderId, user : Users, status : Statuses] :
                      \A o, p \in O : o.id = p.id => o = p}
    /\ tickets = {}
    /\ nextId = MaxOrderId + 1
    /\ req = [c \in Clients |-> NoRequest]
    /\ answer = NoAnswer
    /\ schedule = {}
    /\ tripReq = [c \in Staff |-> NoTripRequest]

NextList == \E u \in Users : ListOrders(u)

SpecList == InitList /\ [][NextList]_vars

\* Trips are created and updated by two staff sessions at once.
NextTrips ==
    \/ \E c \in Staff, data \in TripInputs, i \in 0..MaxTrips :
          TripValidate(c, data, i)
    \/ \E c \in Staff : perform_create(c)
    \/ \E c \in Staff : perform_update(c)

SpecTrips == Init /\ [][NextTrips]_vars

\* ------------------------------------------------------------------ claims

\* C1: in every reachable state no two distinct Tickets share the same
\* (trip, wagon, seat_number).
C1_UniqueSeat ==
    \A t1, t2 \in tickets : Seat(t1) = Seat(t2) => t1 = t2

\* Two orders hold tickets and a later creation has just lost a seat to a
\* committed ticket.
C1_Witness ==
    /\ Cardinality(tickets) >= 2
    /\ answer.op = "create"
    /\ answer.outcome = "IntegrityError"

\* The storage layer refused a write because another transaction has the seat:
\* the uniqueness violation, or the abort that breaks a deadlock between two
\* writers of the same seats. The view answers either with 400 and the error.
SeatConflict(outcome) == outcome \in {"IntegrityError", "OperationalError"}

AllIdle == \A c \in Clients : req[c].pc = "idle"

Finishes(c) == req[c].pc \in {"validating", "creating"} /\ req'[c].pc = "idle"

\* The rows the API request of client c asks for.
RequestedRows(c) ==
    {TicketRow(req[c].data[i], req[c].order) : i \in DOMAIN req[c].data}

\* C3: a creation that fails, in validation or at any insert, leaves the Orders
\* and the Tickets exactly as they were, its Order row included; while a
\* creation is in flight none of its rows is visible, and a committed API
\* order appears with all the tickets of its request at once.
C3_AllOrNothing ==
    [][ /\ \A c \in Clients :
              (Finishes(c) /\ answer'.outcome # "created")
                  => (orders' = orders /\ tickets' = tickets)
        /\ \A c \in Clients :
              (Finishes(c) /\ answer'.outcome = "created" /\ req[c].path = "api")
                  => (tickets' \ tickets = RequestedRows(c))
        /\ \A c \in Clients :
              req'[c].pc = "creating"
                  => /\ \A o \in orders' : o.id # req'[c].order
                     /\ \A t \in tickets' : t.order # req'[c].order
        /\ \A t \in tickets' : t.order \in {o.id : o \in orders'} ]_vars

\* The only creation so far wrote a ticket and then failed on a later one of
\* the same request; nothing of it is left.
C3_Witness ==
    /\ nextId = 2
    /\ answer.op = "create"
    /\ answer.outcome = "IntegrityError"
    /\ orders = {}
    /\ tickets = {}

HasDuplicateSeat(d) ==
    \E i, j \in DOMAIN d : i # j /\ Seat(d[i]) = Seat(d[j])

\* C4: a request naming the same free (trip, wagon, seat_number) twice fails
\* as a whole with SeatConflict and persists no ticket and no order.
C4_DuplicateSeatConflict ==
    [][ (Finishes("c1") /\ HasDuplicateSeat(req["c1"].data))
            => /\ answer'.outcome = "IntegrityError"
               /\ orders' = orders
               /\ tickets' = tickets ]_vars

\* The number N of ticket requests client c's creation carries: the length of
\* the API's validated list, or the number of elements the service's loop has
\* taken from tickets_data when it ends.
RequestSize(c) ==
    IF req[c].path = "api" THEN Len(req[c].data) ELSE Cardinality(req[c].tx)

\* C5: a successful creation of N >= 1 tickets adds exactly one Order, pending
\* and owned by the requesting user, and exactly N Tickets, all of that Order;
\* no other Order or Ticket is added or changed.
C5_OneOrderNTickets ==
    [][ \A c \in Clients :
          (Finishes(c) /\ answer'.outcome = "created" /\ RequestSize(c) >= 1)
              => /\ orders \subseteq orders'
                 /\ tickets \subseteq tickets'
                 /\ orders' \ orders =
                       {[id |-> req[c].order, user |-> SessionUser[c],
                         status |-> "pending"]}
                 /\ req[c].order \notin OrderIds
                 /\ Cardinality(tickets' \ tickets) = RequestSize(c)
                 /\ \A t \in tickets' \ tickets : t.order = req[c].order
                 /\ \A i \in DOMAIN req[c].data :
                       \E t \in tickets' \ tickets :
                          /\ Seat(t) = Seat(req[c].data[i])
                          /\ t.passenger_type = req[c].data[i].passenger_type ]_vars

\* An order of two tickets has just been created by the second request to
\* enter its transaction.
C5_Witness ==
    /\ answer.op = "create"
    /\ answer.outcome = "created"
    /\ answer.order = 2
    /\ Cardinality(TicketsOf(answer.order)) = 2

\* The request of client c carries no ticket: the API's list has no item, or
\* the service's loop ended without writing one.
RequestIsEmpty(c) ==
    IF req[c].path = "api" THEN req[c].n = 0 ELSE req[c].tx = {}

\* C6: a creation with an empty ticket list fails and creates no Order, so
\* order creation never adds an Order that has no ticket.
C6_EmptyOrderRejected ==
    [][ /\ \A c \in Clients :
              (Finishes(c) /\ RequestIsEmpty(c))
                  => (answer'.outcome # "created" /\ orders' = orders)
        /\ \A o \in orders' \ orders : \E t \in tickets' : t.order = o.id ]_vars

\* C7: every Ticket persisted by order creation has a wagon of its trip's
\* train and a seat_number within 1..wagon.seats.
C7_PersistedTicketsFit ==
    \A t \in tickets :
        /\ WagonTrain[t.wagon] = TripTrain[t.trip]
        /\ 1 <= t.seat_number
        /\ t.seat_number <= WagonSeats[t.wagon]

\* C8: every persisted Ticket whose passenger type requires a document has a
\* non-empty passenger_document.
C8_PersistedTicketsHaveDocument ==
    \A t \in tickets :
        requires_document[t.passenger_type] => t.passenger_document # ""

\* C9: once an order is paid or cancelled, no operation changes its status.
C9_FinalStatusesStay ==
    [][ \A o \in orders, p \in orders' :
          (o.id = p.id /\ o.status \in {"paid", "cancelled"})
              => p.status = o.status ]_vars

\* C10: cancel_order answers Forbidden and changes no order when the user is
\* neither staff nor the owner of the order; a staff user is never answered
\* Forbidden.
C10_ForbiddenForStrangers ==
    [][ (answer'.op = "cancel" /\ answer'.order \in OrderIds)
            => /\ (~is_staff(answer'.user)
                     /\ OrderById(answer'.order).user # answer'.user)
                      => (answer'.outcome = "Forbidden" /\ orders' = orders)
               /\ is_staff(answer'.user) => answer'.outcome # "Forbidden" ]_vars

\* A user who neither owns a pending order nor is staff has just been refused.
C10_Witness ==
    /\ answer.op = "cancel"
    /\ answer.outcome = "Forbidden"
    /\ answer.order \in OrderIds
    /\ OrderById(answer.order).status = "pending"
    /\ TicketsOf(answer.order) # {}

\* The step is a call of cancel_order for an existing order.
Cancels == answer'.op = "cancel" /\ answer'.order \in OrderIds

\* The user of the cancel_order call of this step is staff or the order's owner.
Authorised ==
    is_staff(answer'.user) \/ OrderById(answer'.order).user = answer'.user

C12_CancellationWindow ==
    [][ (Cancels /\ Authorised /\ OrderById(answer'.order).status = "pending")
          => IF \A t \in TicketsOf(answer'.order) :
                    departure_time[t.trip] - answer'.now > 24
             THEN /\ answer'.outcome = "ok"
                  /\ orders' = (orders \ {OrderById(answer'.order)})
                        \cup {[OrderById(answer'.order)
                                  EXCEPT !.status = "cancelled"]}
             ELSE /\ answer'.outcome = "CancellationWindowClosed"
                  /\ orders' = orders ]_vars

\* An order with one ticket departing in 26 hours and one departing in exactly
\* 24 hours has just been refused cancellation.
C12_Witness ==
    /\ answer.op = "cancel"
    /\ answer.outcome = "CancellationWindowClosed"
    /\ answer.now = 0
    /\ answer.order \in OrderIds
    /\ OrderById(answer.order).status = "pending"
    /\ {departure_time[t.trip] : t \in TicketsOf(answer.order)} = {24, 26}

\* C13: a successful cancel_order changes the status of that order and nothing
\* else: the tickets are as before, every availability query counts the same
\* seats as booked, a candidate for a seat of the cancelled order is still
\* refused as taken, and no later step adds a ticket for a seat held by a
\* ticket of a cancelled order.
C13_CancelKeepsSeats ==
    [][ /\ (Cancels /\ answer'.outcome = "ok")
              => /\ tickets' = tickets
                 /\ \A o \in orders : o.id # answer'.order => o \in orders'
                 /\ \A w \in Wagons, t \in Trips :
                       /\ sold_seats(w, t)' = sold_seats(w, t)
                       /\ available_seats(w, t)' = available_seats(w, t)
                 /\ \A t \in Trips :
                       get_available_seats_by_class(t, DefaultDate(t))'
                          = get_available_seats_by_class(t, DefaultDate(t))
                 /\ \A tk \in TicketInputs :
                       (\E x \in tickets' : x.order = answer'.order
                                             /\ Seat(x) = Seat(tk))
                          => run_validation(tk, tickets') = "SeatConflict"
        /\ \A new \in tickets' \ tickets, old \in tickets :
              (\E o \in orders : o.id = old.order /\ o.status = "cancelled")
                 => Seat(new) # Seat(old) ]_vars

\* An order with a ticket has just been cancelled.
C13_Witness ==
    /\ answer.op = "cancel"
    /\ answer.outcome = "ok"
    /\ TicketsOf(answer.order) # {}
    /\ \A o \in orders : o.id = answer.order => o.status = "cancelled"

\* C14: once the ticket of order 1 for (t1, w1, 1) has been committed, no
\* sequence of creations, cancellations, updates and deletions of orders leads
\* to a second ticket for that triple: every ticket for it is order 1's.
C14_AtMostOneTicketEver ==
    \A t \in tickets : Seat(t) = Seat(FirstTicket) => t.order = 1

\* The price base_price * fare_multiplier * (100 - d) / 100, exactly.
ExactFare(b, m, d) == Decimal(b * m * (100 - d), 6)

\* C15: the price stored on a ticket equals
\* base_price * fare_multiplier * (100 - discount_percent) / 100, at the two
\* decimal places of the column.
C15_StoredPriceFormula ==
    answer.op = "save"
        => \E r \in StorageRoundings :
              answer.price =
                 quantize(ExactFare(answer.base_price, answer.fare_multiplier,
                                    answer.discount_percent), r)

\* C16: discount_percent = 0 yields the full price base_price * fare_multiplier
\* and discount_percent = 100 yields 0.
C16_DiscountRangeEnds ==
    answer.op = "compute_price"
        => /\ answer.discount_percent = 0
                => Units(answer.price)
                      = Units(Decimal(answer.base_price * answer.fare_multiplier, 4))
           /\ answer.discount_percent = 100 => Units(answer.price) = 0

\* C17: two creations that differ only in the code of the passenger type,
\* discount_percent being equal, persist the same ticket price.
C17_PriceIgnoresCode ==
    answer.op = "create_pair" => answer.first = answer.second

\* C18: a fare calculation returns a value with exactly 2 decimal places, the
\* exact product rounded half-up.
C18_TwoPlacesHalfUp ==
    /\ answer.op = "compute_price"
          => answer.price = quantize(answer.price, "ROUND_HALF_UP")
    /\ answer.op = "calculate_price"
          => answer.price =
                quantize(Decimal(answer.base_price * answer.fare_multiplier
                                    * answer.passengers_count, 4),
                         "ROUND_HALF_UP")

\* C19: for every wagon and trip, available + booked equals the wagon's seats,
\* and for every class that get_available_seats_by_class reports,
\* available_seats + booked_seats equals total_seats.
C19_AvailablePlusBooked ==
    /\ \A w \in Wagons, t \in Trips :
          available_seats(w, t) + sold_seats(w, t) = WagonSeats[w]
    /\ answer.op = "wagon_seats"
          => answer.available + answer.sold = WagonSeats[answer.wagon]
    /\ answer.op = "availability"
          => \A cn \in DOMAIN answer.result :
                answer.result[cn].available_seats + answer.result[cn].booked_seats
                   = answer.result[cn].total_seats

\* Wagon w1 is asked about trip t1 while it holds a ticket for each trip.
C19_Witness ==
    /\ answer.op = "wagon_seats"
    /\ answer.wagon = "w1"
    /\ answer.trip = "t1"
    /\ answer.sold = 1
    /\ \E tk \in tickets : tk.wagon = "w1" /\ tk.trip = "t2"

\* C20: with the trip's own departure date, get_available_seats_by_class
\* reports for each wagon class of the trip's train the sum of the seats of
\* the train's wagons of that class as total_seats and the number of Tickets
\* of that trip in a wagon of that class as booked_seats.
C20_ByClassCounts ==
    (answer.op = "availability" /\ answer.travel_date = DefaultDate(answer.trip))
        => /\ DOMAIN answer.result =
                 {WagonType[w] : w \in {x \in Wagons :
                                          WagonTrain[x] = TripTrain[answer.trip]}}
           /\ \A cn \in DOMAIN answer.result :
                 /\ answer.result[cn].total_seats =
                       Cardinality({<<w, k>> \in Wagons \X (1..MaxSeat) :
                                       /\ WagonTrain[w] = TripTrain[answer.trip]
                                       /\ WagonType[w] = cn
                                       /\ k <= WagonSeats[w]})
                 /\ answer.result[cn].booked_seats =
                       Cardinality({tk \in tickets : /\ tk.trip = answer.trip
                                                     /\ WagonType[tk.wagon] = cn})

\* Trip t1 is asked about while one coupe seat is booked on it and another on
\* trip t2 of the same train.
C20_Witness ==
    /\ answer.op = "availability"
    /\ answer.trip = "t1"
    /\ answer.travel_date = DefaultDate("t1")
    /\ answer.result["coupe"].total_seats = 3
    /\ answer.result["coupe"].booked_seats = 1
    /\ \E tk \in tickets : tk.trip = "t2" /\ WagonType[tk.wagon] = "coupe"

\* The free seats of class cn on trip t: the seats of the train's wagons of
\* that class less the tickets of the trip in wagons of that class.
FreeInClass(t, cn) ==
    Cardinality({<<w, k>> \in Wagons \X (1..MaxSeat) :
                    /\ WagonTrain[w] = TripTrain[t]
                    /\ WagonType[w] = cn
                    /\ k <= WagonSeats[w]})
      - Cardinality({tk \in tickets : tk.trip = t /\ WagonType[tk.wagon] = cn})

ClassesOnTrain(t) == {WagonType[w] : w \in {x \in Wagons : WagonTrain[x] = TripTrain[t]}}

\* C21: is_available_for_booking(trip, n, class) is true exactly when the
\* class exists on the trip's train and has at least n free seats; with no
\* class it is true exactly when some single class has at least n free seats.
C21_IsAvailableForBooking ==
    answer.op = "is_available"
        => IF answer.wagon_class # ""
           THEN answer.result
                   <=> /\ answer.wagon_class \in ClassesOnTrain(answer.trip)
                       /\ FreeInClass(answer.trip, answer.wagon_class)
                             >= answer.passengers_count
           ELSE answer.result
                   <=> \E cn \in ClassesOnTrain(answer.trip) :
                          FreeInClass(answer.trip, cn) >= answer.passengers_count

\* Three seats are asked for without a class while two coupe seats and one
\* economy seat are free: no single class has three, and the answer is false.
C21_Witness ==
    /\ answer.op = "is_available"
    /\ answer.wagon_class = ""
    /\ answer.passengers_count = 3
    /\ FreeInClass(answer.trip, "coupe") = 2
    /\ FreeInClass(answer.trip, "economy") = 1
    /\ ~answer.result

\* The seat map was asked with a date that parses, or with none.
SeatMapDated == answer.op = "seat_map" /\ answer.date # "bad"

\* C22: the seat map of a wagon of the trip's train has one entry per seat
\* 1..wagon.seats in ascending order, each priced base_price * fare_multiplier,
\* and an entry is unavailable exactly when a ticket exists for (trip, wagon,
\* seat); a wagon of another train yields 404.
C22_SeatMap ==
    SeatMapDated
        => IF WagonTrain[answer.wagon] # TripTrain[answer.trip]
           THEN answer.status = 404
           ELSE /\ answer.status = 200
                /\ Len(answer.seats) = WagonSeats[answer.wagon]
                /\ \A k \in 1..Len(answer.seats) :
                      /\ answer.seats[k].number = k
                      /\ answer.seats[k].price
                            = base_price[answer.trip]
                              * fare_multiplier[WagonType[answer.wagon]] * 1000
                      /\ ~answer.seats[k].is_available
                            <=> \E tk \in tickets :
                                   Seat(tk) = <<answer.trip, answer.wagon, k>>

\* C29: for one trip, date and class, the seats that the seat maps of the
\* class's wagons report unavailable are as many as the booked_seats that the
\* availability by class reports.
C29_SeatMapsAgreeWithClasses ==
    answer.op = "seat_maps_and_availability"
        => answer.unavailable = answer.booked_seats

\* C28: for one trip and passengers_count, the search-side check without a
\* class and the is_available flag of the availability endpoint agree.
C28_SearchAgreesWithAvailability ==
    answer.op = "search_and_availability"
        => (answer.search <=> answer.availability.is_available)

\* The order of the cancel_order call of this step has a ticket whose trip
\* departs within the cancellation window.
WindowClosed ==
    \E t \in TicketsOf(answer'.order) :
        departure_time[t.trip] <= answer'.now + CancellationWindowHours

\* C30: cancel_order checks ownership first, then the status, then the window:
\* a stranger is answered Forbidden whatever the status and the departure
\* times, an authorised user of a non-pending order InvalidState whatever the
\* departure times, and only then CancellationWindowClosed.
C30_CheckOrder ==
    [][ Cancels =>
          answer'.outcome =
              IF ~Authorised THEN "Forbidden"
              ELSE IF OrderById(answer'.order).status # "pending"
                   THEN "InvalidState"
              ELSE IF WindowClosed THEN "CancellationWindowClosed"
              ELSE "ok" ]_vars

\* A stranger has been refused on an order that is not pending and whose trip
\* departs within the window.
C30_Witness ==
    /\ answer.op = "cancel"
    /\ answer.outcome = "Forbidden"
    /\ answer.order \in OrderIds
    /\ OrderById(answer.order).status # "pending"
    /\ \E t \in TicketsOf(answer.order) :
          departure_time[t.trip] <= answer.now + CancellationWindowHours

\* C25: the list of orders holds every order for a staff user and exactly the
\* user's own orders otherwise, each once, in descending order of creation.
C25_ListOrders ==
    answer.op = "list"
        => LET r == answer.result
               visible == IF is_staff(answer.user) THEN orders
                          ELSE {o \in orders : o.user = answer.user}
           IN /\ {r[k] : k \in 1..Len(r)} = visible
              /\ Len(r) = Cardinality(visible)
              /\ \A j, k \in 1..Len(r) :
                    j < k => created_at(r[j]) > created_at(r[k])

\* A user who is not staff has listed their own order while another user's
\* order is in the table.
C25_Witness ==
    /\ answer.op = "list"
    /\ ~is_staff(answer.user)
    /\ Len(answer.result) = 1
    /\ \E o \in orders : o.user # answer.user

\* C26: for every trip and wagon the tickets number between 0 and the wagon's
\* seats, so the available seats of no wagon and of no class are negative.
C26_NeverOverbooked ==
    /\ \A t \in Trips, w \in Wagons :
          /\ sold_seats(w, t) >= 0
          /\ sold_seats(w, t) <= WagonSeats[w]
          /\ available_seats(w, t) >= 0
    /\ \A t \in Trips :
          \A cn \in DOMAIN get_available_seats_by_class(t, DefaultDate(t)) :
             get_available_seats_by_class(t, DefaultDate(t))[cn].available_seats >= 0

\* A wagon is full, and its ticket belongs to an order that has been
\* cancelled.
C26_Witness ==
    \E tk \in tickets :
       /\ sold_seats(tk.wagon, tk.trip) = WagonSeats[tk.wagon]
       /\ available_seats(tk.wagon, tk.trip) = 0
       /\ OrderById(tk.order).status = "cancelled"
       /\ answer.op = "cancel"

\* Request A asks for two seats s1, s2 and request B for the same seats in the
\* opposite order; both have been validated and neither has written a ticket.
Crossed ==
    /\ \A c \in Clients : req[c].pc = "creating" /\ req[c].tx = {}
    /\ Len(req["c1"].data) = 2
    /\ Len(req["c2"].data) = 2
    /\ req["c2"].data[1] = req["c1"].data[2]
    /\ req["c2"].data[2] = req["c1"].data[1]

\* C27: two concurrent creations asking for the same two seats in opposite
\* orders both finish (neither waits forever), at most one of them commits,
\* and all persisted tickets belong to one order.
C27_CrossedRequestsFinish ==
    /\ Crossed ~> AllIdle
    /\ [](/\ Cardinality(orders) <= 1
          /\ \A t1, t2 \in tickets : t1.order = t2.order)

\* The crossed requests met in a deadlock and the database has aborted one of
\* them; the other holds its first seat and can go on to the second.
C27_Witness ==
    /\ answer.op = "create"
    /\ answer.outcome = "OperationalError"
    /\ orders = {}
    /\ \E c \in Clients :
          /\ req[c].pc = "creating"
          /\ Len(req[c].data) = 2
          /\ Cardinality(req[c].tx) = 1
          /\ \A d \in Clients \ {c} : req[d].pc = "idle"

\* Trips a and b of one train share more than an instant.
Overlap(a, b) ==
    /\ a.train = b.train
    /\ a.departure_time < b.arrival_time
    /\ b.departure_time < a.arrival_time

\* C23: validating a trip answers TimeOrderError when its arrival is not after
\* its departure; otherwise OverlapError exactly when another stored trip of
\* the same train overlaps it; otherwise ok. Trips that touch, trips of other
\* trains and the stored trip itself do not conflict.
C23_TripValidation ==
    answer.op = "validate_trip"
        => LET cand == answer.data
           IN answer.outcome =
                 IF cand.arrival_time <= cand.departure_time THEN "TimeOrderError"
                 ELSE IF \E r \in schedule : r.id # answer.id /\ Overlap(r, cand)
                      THEN "OverlapError"
                 ELSE "ok"

\* A trip that starts when a stored trip of the same train arrives has been
\* accepted.
C23_Witness ==
    /\ answer.op = "validate_trip"
    /\ answer.outcome = "ok"
    /\ \E r \in schedule :
          /\ r.id # answer.id
          /\ r.train = answer.data.train
          /\ r.arrival_time = answer.data.departure_time

\* C24: no two stored trips of one train overlap, and every stored trip
\* arrives after it departs.
C24_ScheduleNeverOverlaps ==
    /\ \A r \in schedule : r.arrival_time > r.departure_time
    /\ \A a, b \in schedule : (a.id # b.id) => ~Overlap(a, b)

====
